---- MODULE Spec2Model ----
(***************************************************************************)
(* LRS backtest (moving-average crossover against buy-and-hold).           *)
(*                                                                         *)
(* One behaviour of this module is one press of the "start backtest"       *)
(* button: app.py lines 202-399, or the FinMind/yfinance variant           *)
(* (src/判斷台股/美股) lines 87-158.  Each `# ===` section of the handler  *)
(* is one action and pc names the section that runs next.                  *)
(*                                                                         *)
(* Numbers.  Prices are positive integers; every derived quantity (split   *)
(* ratio, moving average, return, equity, drawdown) is an exact rational   *)
(* <<n, d>> in lowest terms with d > 0.  NaN is <<0, 0>> and, as in        *)
(* IEEE-754, every ordered comparison with NaN is false.  The source       *)
(* computes in binary64; rounding is not modelled.                         *)
(*                                                                         *)
(* Dates.  Row i of the provider's answer carries the i-th trading date,   *)
(* so a date is a row number and the display window [start, end] is the    *)
(* set of rows i >= start (the provider already returns nothing after      *)
(* end).  start = Len(data) + 1 is a start date after the last row.        *)
(***************************************************************************)
EXTENDS Integers, Sequences, FiniteSets

\* ------------------------------------------------------------- bounds
\* Longest series the provider returns.
MaxLen == 5
\* Prices are drawn from MinPrice..MaxPrice.  5 -> 3 is a drop of 40%
\* (a split candidate), 5 -> 4 and 4 -> 3 are ordinary drops.
MinPrice == 3
MaxPrice == 5
\* The slider offers 10..200; the model scales the window down to
\* 2..MaxWindow so that warm-up, crossings and price = average all happen
\* within MaxLen rows.
MaxWindow == 3

Prices == MinPrice..MaxPrice
Windows == 2..MaxWindow

\* ---------------------------------------------------------- rationals
RECURSIVE GCD(_, _)
GCD(a, b) == IF b = 0 THEN a ELSE GCD(b, a % b)

Abs(n) == IF n < 0 THEN -n ELSE n

NaN == <<0, 0>>
IsNaN(x) == x[2] = 0

\* n/d in lowest terms, d > 0; anything over 0 is NaN.
Rat(n, d) ==
    IF d = 0 THEN NaN
    ELSE LET g == GCD(Abs(n), Abs(d))
             s == IF d < 0 THEN -1 ELSE 1
         IN  <<(s * n) \div g, (s * d) \div g>>

Int2Rat(n) == <<n, 1>>
Zero == <<0, 1>>
One == <<1, 1>>

RAdd(x, y) ==
    IF IsNaN(x) \/ IsNaN(y) THEN NaN
    ELSE Rat(x[1] * y[2] + y[1] * x[2], x[2] * y[2])
RSub(x, y) ==
    IF IsNaN(x) \/ IsNaN(y) THEN NaN
    ELSE Rat(x[1] * y[2] - y[1] * x[2], x[2] * y[2])
RMul(x, y) ==
    IF IsNaN(x) \/ IsNaN(y) THEN NaN
    ELSE Rat(x[1] * y[1], x[2] * y[2])
RDiv(x, y) ==
    IF IsNaN(x) \/ IsNaN(y) THEN NaN
    ELSE Rat(x[1] * y[2], x[2] * y[1])

\* Python's >, <, >=, <= on floats: false when either side is NaN.
Gt(x, y) == ~IsNaN(x) /\ ~IsNaN(y) /\ x[1] * y[2] > y[1] * x[2]
Lt(x, y) == ~IsNaN(x) /\ ~IsNaN(y) /\ x[1] * y[2] < y[1] * x[2]
Ge(x, y) == ~IsNaN(x) /\ ~IsNaN(y) /\ x[1] * y[2] >= y[1] * x[2]
Le(x, y) == ~IsNaN(x) /\ ~IsNaN(y) /\ x[1] * y[2] <= y[1] * x[2]

RAbs(x) == <<Abs(x[1]), x[2]>>

\* Sign of a number: -1, 0, 1.
Sign(x) == IF x[1] > 0 THEN 1 ELSE IF x[1] < 0 THEN -1 ELSE 0

RECURSIVE RSum(_)
RSum(s) == IF s = <<>> THEN Zero ELSE RAdd(s[1], RSum(Tail(s)))

\* ------------------------------------------------- pandas primitives
\* Series.pct_change(): NaN on the first row, then p[i]/p[i-1] - 1.
pct_change(p) ==
    [i \in 1..Len(p) |->
        IF i = 1 THEN NaN ELSE RSub(RDiv(p[i], p[i - 1]), One)]

\* Series.fillna(0)
fillna0(s) == [i \in 1..Len(s) |-> IF IsNaN(s[i]) THEN Zero ELSE s[i]]

\* Series.cumprod()
RECURSIVE cumprodTo(_, _)
cumprodTo(s, i) == IF i = 1 THEN s[1] ELSE RMul(cumprodTo(s, i - 1), s[i])
cumprod(s) == [i \in 1..Len(s) |-> cumprodTo(s, i)]

\* Series.cummax()
RECURSIVE cummaxTo(_, _)
cummaxTo(s, i) ==
    IF i = 1 THEN s[1]
    ELSE LET m == cummaxTo(s, i - 1) IN IF Gt(s[i], m) THEN s[i] ELSE m
cummax(s) == [i \in 1..Len(s) |-> cummaxTo(s, i)]

\* Series.min() of a non-empty series without NaN.
RECURSIVE minTo(_, _)
minTo(s, i) ==
    IF i = 1 THEN s[1]
    ELSE LET m == minTo(s, i - 1) IN IF Lt(s[i], m) THEN s[i] ELSE m
smin(s) == minTo(s, Len(s))

\* Series.rolling(window).mean(): NaN until `window` rows are available.
rolling_mean(p, w) ==
    [i \in 1..Len(p) |->
        IF i < w THEN NaN
        ELSE RDiv(RSum(SubSeq(p, i - w + 1, i)), Int2Rat(w))]

\* Series.ewm(span=window, adjust=False).mean(): seeded by the first row,
\* then alpha * p[i] + (1 - alpha) * previous, alpha = 2 / (span + 1).
RECURSIVE ewmTo(_, _, _)
ewmTo(p, w, i) ==
    IF i = 1 THEN p[1]
    ELSE LET alpha == Rat(2, w + 1)
         IN  RAdd(RMul(alpha, p[i]),
                  RMul(RSub(One, alpha), ewmTo(p, w, i - 1)))
ewm_mean(p, w) == [i \in 1..Len(p) |-> ewmTo(p, w, i)]

\* Rows of a column from position k on (a frame sliced at its k-th row).
From(col, k) == SubSeq(col, k, Len(col))

\* ------------------------------------------------- adjust_for_splits
threshold == <<3, 10>>

\* The body of the loop over candidates, from date d on: a candidate is a
\* day whose |pct| >= threshold; one with 0 < ratio < 1 multiplies every
\* adjusted price strictly before it by ratio.
RECURSIVE SplitLoop(_, _, _)
SplitLoop(adj, pct, d) ==
    IF d > Len(adj) THEN adj
    ELSE LET r == pct[d]
             ratio == RAdd(One, r)
             candidate == Ge(RAbs(r), threshold)
             skip == Le(ratio, Zero) \/ Ge(ratio, One)
             next == IF candidate /\ ~skip
                     THEN [i \in 1..Len(adj) |->
                              IF i < d THEN RMul(adj[i], ratio) ELSE adj[i]]
                     ELSE adj
         IN  SplitLoop(next, pct, d + 1)

\* Bug variant of the loop's mask: df.index <= date instead of <.
RECURSIVE SplitLoopInclusive(_, _, _)
SplitLoopInclusive(adj, pct, d) ==
    IF d > Len(adj) THEN adj
    ELSE LET r == pct[d]
             ratio == RAdd(One, r)
             candidate == Ge(RAbs(r), threshold)
             skip == Le(ratio, Zero) \/ Ge(ratio, One)
             next == IF candidate /\ ~skip
                     THEN [i \in 1..Len(adj) |->
                              IF i <= d THEN RMul(adj[i], ratio) ELSE adj[i]]
                     ELSE adj
         IN  SplitLoopInclusive(next, pct, d + 1)

adjust_for_splits_inclusive(p) ==
    IF p = <<>> THEN p ELSE SplitLoopInclusive(p, pct_change(p), 1)

\* Price_adj of adjust_for_splits(df) for the price column p.
adjust_for_splits(p) ==
    IF p = <<>> THEN p ELSE SplitLoop(p, pct_change(p), 1)

\* ---------------------------------------------------------- variables
VARIABLES
    pc,             \* the section that runs next, or the run's outcome
    program,        \* "app" (app.py) or "variant" (判斷台股/美股)
    ma_type,        \* "SMA" or "EMA"
    window,         \* moving-average span
    start,          \* first date of the display window
    data,           \* the provider's answer: the price column, oldest first
    index,          \* df.index: the date of each row of df
    Price,          \* df["Price"] (app) / df["Close"] (variant)
    MA,             \* df["MA"]
    Signal,         \* df["Signal"]
    Position,       \* df["Position"]
    Return,         \* df["Return"]
    Strategy_Return,\* df["Strategy_Return"]
    Equity_LRS,     \* df["Equity_LRS"]
    Equity_BuyHold, \* df["Equity_BuyHold"] (app) / df["Equity_BH"] (variant)
    buy_points,     \* dates of the recorded BUY events
    sell_points,    \* dates of the recorded SELL events
    report          \* the metrics of the report, <<>> until computed

vars == <<pc, program, ma_type, window, start, data, index, Price, MA, Signal,
          Position, Return, Strategy_Return, Equity_LRS, Equity_BuyHold,
          buy_points, sell_points, report>>

cols == <<index, Price, MA, Signal, Position, Return, Strategy_Return,
          Equity_LRS, Equity_BuyHold>>

Series == UNION {[1..n -> Prices] : n \in 0..MaxLen}

\* The state when the button is pressed: the widgets hold the user's
\* choices and the provider holds the series it will return.  The variant
\* has no display window (it reports on every row it loaded).
Init ==
    /\ pc = "load"
    /\ program \in {"app", "variant"}
    /\ ma_type \in {"SMA", "EMA"}
    /\ window \in Windows
    /\ data \in Series
    /\ start \in (IF program = "app" THEN 1..(Len(data) + 1) ELSE {1})
    /\ index = <<>>
    /\ Price = <<>>
    /\ MA = <<>>
    /\ Signal = <<>>
    /\ Position = <<>>
    /\ Return = <<>>
    /\ Strategy_Return = <<>>
    /\ Equity_LRS = <<>>
    /\ Equity_BuyHold = <<>>
    /\ buy_points = <<>>
    /\ sell_points = <<>>
    /\ report = <<>>

inputs == <<program, ma_type, window, start, data>>

\* ------------------------------------------------------------- load
\* app.py: load_price_data, the empty check, Price = Price_adj.
\* variant: load_price and the empty check; Close is used as returned.
Load ==
    /\ pc = "load"
    /\ IF data = <<>>
       THEN /\ pc' = "stopped"
            /\ UNCHANGED <<index, Price>>
       ELSE /\ pc' = "ma"
            /\ index' = [i \in 1..Len(data) |-> i]
            /\ Price' = IF program = "app"
                        THEN adjust_for_splits([i \in 1..Len(data) |-> Int2Rat(data[i])])
                        ELSE [i \in 1..Len(data) |-> Int2Rat(data[i])]
    /\ UNCHANGED <<inputs, MA, Signal, Position, Return, Strategy_Return,
                   Equity_LRS, Equity_BuyHold, buy_points, sell_points, report>>

\* --------------------------------------------------- moving average
\* Positions of the rows that dropna(subset=["MA"]) keeps.
RECURSIVE Defined(_, _)
Defined(m, i) ==
    IF i > Len(m) THEN <<>>
    ELSE IF IsNaN(m[i]) THEN Defined(m, i + 1)
    ELSE <<i>> \o Defined(m, i + 1)

\* df[col] after df = df.dropna(subset=["MA"])
dropna(col, m) == LET keep == Defined(m, 1) IN [k \in 1..Len(keep) |-> col[keep[k]]]

moving_average(p, type, w) ==
    IF type = "SMA" THEN rolling_mean(p, w) ELSE ewm_mean(p, w)

\* app.py: the average, dropna, and the "not enough data" check.
\* variant: the average only; warm-up rows stay, with MA = NaN.
ComputeMA ==
    /\ pc = "ma"
    /\ LET m == moving_average(Price, ma_type, window) IN
       IF program = "app"
       THEN /\ MA' = dropna(m, m)
            /\ Price' = dropna(Price, m)
            /\ index' = dropna(index, m)
            /\ pc' = IF Len(dropna(m, m)) = 0 THEN "stopped" ELSE "signal"
       ELSE /\ MA' = m
            /\ pc' = "signal"
            /\ UNCHANGED <<Price, index>>
    /\ UNCHANGED <<inputs, Signal, Position, Return, Strategy_Return,
                   Equity_LRS, Equity_BuyHold, buy_points, sell_points, report>>

\* ------------------------------------------------------------ signal
\* Bug variants of the crossing test.
\* Level-triggered: the test on the previous day is dropped.
crossing_level(p, m, pp, pm) ==
    IF Gt(p, m) THEN 1 ELSE IF Lt(p, m) THEN -1 ELSE 0
\* "not above" / "not below" for <= and >=: true of an undefined average.
crossing_negated(p, m, pp, pm) ==
    IF Gt(p, m) /\ ~Gt(pp, pm) THEN 1
    ELSE IF Lt(p, m) /\ ~Lt(pp, pm) THEN -1
    ELSE 0
\* >= and <= for today's test as well.
crossing_weak(p, m, pp, pm) ==
    IF Ge(p, m) /\ Le(pp, pm) THEN 1
    ELSE IF Le(p, m) /\ Ge(pp, pm) THEN -1
    ELSE 0

\* One pass of the signal loop's body: today's price p and average m,
\* yesterday's pp and pm.
crossing(p, m, pp, pm) ==
    IF Gt(p, m) /\ Le(pp, pm) THEN 1
    ELSE IF Lt(p, m) /\ Ge(pp, pm) THEN -1
    ELSE 0

\* The Signal column: the first row is forced to 1.
signal_loop(p, m) ==
    [i \in 1..Len(p) |->
        IF i = 1 THEN 1 ELSE crossing(p[i], m[i], p[i - 1], m[i - 1])]

GenSignal ==
    /\ pc = "signal"
    /\ Signal' = signal_loop(Price, MA)
    /\ pc' = "position"
    /\ UNCHANGED <<inputs, index, Price, MA, Position, Return, Strategy_Return,
                   Equity_LRS, Equity_BuyHold, buy_points, sell_points, report>>

\* ---------------------------------------------------------- position
\* `current` after the position loop has consumed rows 1..i (1 before any).
RECURSIVE current_after(_, _)
current_after(sig, i) ==
    IF i = 0 THEN 1
    ELSE IF sig[i] = 1 THEN 1
    ELSE IF sig[i] = -1 THEN 0
    ELSE current_after(sig, i - 1)

\* Bug variant: the two branches of the position loop exchanged.
RECURSIVE current_after_swapped(_, _)
current_after_swapped(sig, i) ==
    IF i = 0 THEN 1
    ELSE IF sig[i] = 1 THEN 0
    ELSE IF sig[i] = -1 THEN 1
    ELSE current_after_swapped(sig, i - 1)

position_loop_swapped(sig) ==
    [i \in 1..Len(sig) |-> current_after_swapped(sig, i)]

position_loop(sig) == [i \in 1..Len(sig) |-> current_after(sig, i)]

GenPosition ==
    /\ pc = "position"
    /\ Position' = position_loop(Signal)
    /\ pc' = "returns"
    /\ UNCHANGED <<inputs, index, Price, MA, Signal, Return, Strategy_Return,
                   Equity_LRS, Equity_BuyHold, buy_points, sell_points, report>>

\* ----------------------------------------------------------- returns
\* Return * Position, row by row (the position of the same day).
strategy_return(ret, pos) ==
    [i \in 1..Len(ret) |-> RMul(ret[i], Int2Rat(pos[i]))]

GenReturns ==
    /\ pc = "returns"
    /\ Return' = fillna0(pct_change(Price))
    /\ Strategy_Return' = strategy_return(fillna0(pct_change(Price)), Position)
    /\ pc' = "equity"
    /\ UNCHANGED <<inputs, index, Price, MA, Signal, Position,
                   Equity_LRS, Equity_BuyHold, buy_points, sell_points, report>>

\* ------------------------------------------------------------ equity
\* app.py's capital loop: the return of day i is earned when the position
\* of day i - 1 is 1, otherwise the capital stays where it was.
RECURSIVE equity_to(_, _, _)
equity_to(ret, pos, i) ==
    IF i = 1 THEN One
    ELSE IF pos[i - 1] = 1
         THEN RMul(equity_to(ret, pos, i - 1), RAdd(One, ret[i]))
         ELSE equity_to(ret, pos, i - 1)

equity_loop(ret, pos) == [i \in 1..Len(ret) |-> equity_to(ret, pos, i)]

\* (1 + series).cumprod()
growth(ret) == cumprod([i \in 1..Len(ret) |-> RAdd(One, ret[i])])

GenEquity ==
    /\ pc = "equity"
    /\ Equity_LRS' = IF program = "app"
                     THEN equity_loop(Return, Position)
                     ELSE growth(Strategy_Return)
    /\ Equity_BuyHold' = growth(Return)
    /\ pc' = IF program = "app" THEN "slice" ELSE "trades"
    /\ UNCHANGED <<inputs, index, Price, MA, Signal, Position, Return,
                   Strategy_Return, buy_points, sell_points, report>>

\* ------------------------------------------------------------- slice
\* Position in df of the first row dated start or later (Len + 1: none).
first_in_window(idx, s) == Cardinality({k \in 1..Len(idx) : idx[k] < s}) + 1

\* Bug variant: the sliced curve is kept as it is.
renormalize_skipped(curve) == curve

\* curve /= curve.iloc[0]
renormalize(curve) == [i \in 1..Len(curve) |-> RDiv(curve[i], curve[1])]

\* df = df.loc[start:end], then both curves are divided by their first
\* value.  On an empty slice .iloc[0] raises IndexError, which nothing
\* catches.
SliceWindow ==
    /\ pc = "slice"
    /\ LET k == first_in_window(index, start) IN
       /\ index' = From(index, k)
       /\ Price' = From(Price, k)
       /\ MA' = From(MA, k)
       /\ Signal' = From(Signal, k)
       /\ Position' = From(Position, k)
       /\ Return' = From(Return, k)
       /\ Strategy_Return' = From(Strategy_Return, k)
       /\ IF k > Len(index)
          THEN /\ pc' = "crashed"
               /\ Equity_LRS' = <<>>
               /\ Equity_BuyHold' = <<>>
          ELSE /\ pc' = "trades"
               /\ Equity_LRS' = renormalize(From(Equity_LRS, k))
               /\ Equity_BuyHold' = renormalize(From(Equity_BuyHold, k))
    /\ UNCHANGED <<inputs, buy_points, sell_points, report>>

\* ------------------------------------------------------------ trades
\* Positions i >= 1 (0-based) of df whose Signal is `kind`, oldest first.
RECURSIVE points_from(_, _, _)
points_from(sig, kind, i) ==
    IF i > Len(sig) THEN <<>>
    ELSE IF sig[i] = kind THEN <<i>> \o points_from(sig, kind, i + 1)
    ELSE points_from(sig, kind, i + 1)

\* The dates of buy_points (kind 1) or sell_points (kind -1).
trade_points(idx, sig, kind) ==
    LET at == points_from(sig, kind, 2) IN [k \in 1..Len(at) |-> idx[at[k]]]

GenTrades ==
    /\ pc = "trades"
    /\ buy_points' = trade_points(index, Signal, 1)
    /\ sell_points' = trade_points(index, Signal, -1)
    /\ pc' = IF program = "app" THEN "metrics" ELSE "done"
    /\ UNCHANGED <<inputs, cols, report>>

\* ----------------------------------------------------------- metrics
\* Quantities that carry a root (CAGR, volatility, Sharpe, Sortino) are
\* kept as NaN or as their sign, -1, 0 or 1.
SignOf(x) == IF IsNaN(x) THEN NaN ELSE Int2Rat(Sign(x))

\* Bug variant: the difference taken the other way round.
max_drawdown_negated(curve) ==
    LET peak == cummax(curve)
    IN  RSub(smin([i \in 1..Len(curve) |-> RDiv(curve[i], peak[i])]), One)

\* 1 - (curve / curve.cummax()).min()
max_drawdown(curve) ==
    LET peak == cummax(curve)
    IN  RSub(One, smin([i \in 1..Len(curve) |-> RDiv(curve[i], peak[i])]))

\* (1 + final_return) ** (1 / years_len) - 1 if years_len > 0 else nan
cagr(final_return, years_len) ==
    IF years_len > 0 THEN SignOf(final_return) ELSE NaN

\* Series.std() (ddof = 1): NaN below two values, 0 when all are equal.
std(s) ==
    IF Len(s) < 2 THEN NaN
    ELSE IF \A i, j \in 1..Len(s) : s[i] = s[j] THEN Zero
    ELSE One

\* daily[daily < 0]
RECURSIVE negatives(_)
negatives(s) ==
    IF s = <<>> THEN <<>>
    ELSE IF Lt(s[1], Zero) THEN <<s[1]>> \o negatives(Tail(s))
    ELSE negatives(Tail(s))

\* calc_metrics(series): <<vol, sharpe, sortino>>
calc_metrics(daily) ==
    IF Len(daily) <= 1 THEN <<NaN, NaN, NaN>>
    ELSE LET avg == RDiv(RSum(daily), Int2Rat(Len(daily)))
             sd == std(daily)
             downside == std(negatives(daily))
         IN  << SignOf(sd),
                IF Gt(sd, Zero) THEN SignOf(avg) ELSE NaN,
                IF Gt(downside, Zero) THEN SignOf(avg) ELSE NaN >>

Last(s) == s[Len(s)]

GenMetrics ==
    /\ pc = "metrics"
    /\ LET final_return_lrs == RSub(Last(Equity_LRS), One)
           final_return_bh == RSub(Last(Equity_BuyHold), One)
           years_len == Last(index) - index[1]
           lrs == calc_metrics(Strategy_Return)
           bh == calc_metrics(Return)
       IN  report' = [ final_return_lrs |-> final_return_lrs,
                       final_return_bh |-> final_return_bh,
                       cagr_lrs |-> cagr(final_return_lrs, years_len),
                       cagr_bh |-> cagr(final_return_bh, years_len),
                       mdd_lrs |-> max_drawdown(Equity_LRS),
                       mdd_bh |-> max_drawdown(Equity_BuyHold),
                       vol_lrs |-> lrs[1], sharpe_lrs |-> lrs[2],
                       sortino_lrs |-> lrs[3],
                       vol_bh |-> bh[1], sharpe_bh |-> bh[2],
                       sortino_bh |-> bh[3],
                       buy_count |-> Len(buy_points),
                       sell_count |-> Len(sell_points) ]
    /\ pc' = "done"
    /\ UNCHANGED <<inputs, cols, buy_points, sell_points>>

Next ==
    \/ Load
    \/ ComputeMA
    \/ GenSignal
    \/ GenPosition
    \/ GenReturns
    \/ GenEquity
    \/ SliceWindow
    \/ GenTrades
    \/ GenMetrics

Spec == Init /\ [][Next]_vars

\* ===================================================== properties
InSeq(x, s) == \E k \in 1..Len(s) : s[k] = x

\* The report of app.py is on screen.
Reported == program = "app" /\ pc = "done"

\* Date of the first row of the frame the signal loop runs on (the row
\* whose Signal is forced to 1).
FirstRow == IF program = "app" /\ ma_type = "SMA" THEN window ELSE 1

\* Rows of the provider's answer that have an average and lie in the
\* display window.
InWindowRows ==
    {i \in 1..Len(data) : i >= start /\ (ma_type = "EMA" \/ i >= window)}

\* Rows i >= 1 (0-based) of the displayed frame where Position changes.
Transitions == {i \in 2..Len(Position) : Position[i] # Position[i - 1]}

\* C1 (as claimed): over the display window the recorded trade events
\* are exactly the Position transitions: a BUY at i iff Position goes
\* 0 -> 1 at i, a SELL at i iff it goes 1 -> 0, so buy_count + sell_count
\* is the number of transitions.
C1_TradesArePositionTransitions ==
    Reported =>
        /\ \A i \in 2..Len(index) :
              /\ InSeq(index[i], buy_points)
                    <=> (Position[i - 1] = 0 /\ Position[i] = 1)
              /\ InSeq(index[i], sell_points)
                    <=> (Position[i - 1] = 1 /\ Position[i] = 0)
        /\ report.buy_count + report.sell_count = Cardinality(Transitions)

\* C2 (as claimed): buy_count and sell_count of a report differ by at
\* most 1.
C2_CountsDifferByAtMostOne ==
    Reported =>
        /\ report.buy_count - report.sell_count <= 1
        /\ report.sell_count - report.buy_count <= 1

\* C3 (as claimed): the strategy equity curve is the running product of
\* 1 + Strategy_Return, the series the risk metrics are computed from:
\* Equity_LRS[t] = Equity_LRS[t-1] * (1 + Strategy_Return[t]) for t >= 1.
C3_EquityCompoundsStrategyReturn ==
    Reported =>
        \A t \in 2..Len(Equity_LRS) :
            Equity_LRS[t]
                = RMul(Equity_LRS[t - 1], RAdd(One, Strategy_Return[t]))

\* C4: once the frame is sliced to the display window and renormalized,
\* both equity curves start at exactly 1.
C4_CurvesStartAtOne ==
    (program = "app" /\ pc \in {"trades", "metrics", "done"}) =>
        /\ Equity_LRS[1] = One
        /\ Equity_BuyHold[1] = One

\* C4's case: the window starts on the third row of a rising series, so
\* both curves stood above 1 there before the renormalization.
C4_Witness ==
    /\ Reported
    /\ ma_type = "EMA"
    /\ index[1] = 3
    /\ data[1] < data[2]
    /\ data[2] < data[3]
    /\ Equity_LRS[1] = One
    /\ Equity_BuyHold[1] = One

\* C5 (as claimed): with fewer than 2 usable rows in the display window
\* the run ends in the reported input error: it never gets past the
\* point where the window is cut, never crashes and never reports.
C5_FewPointsIsInputError ==
    (program = "app" /\ Cardinality(InWindowRows) < 2) =>
        pc \notin {"trades", "metrics", "done", "crashed"}

\* C6: adjust_for_splits applied to the adjusted prices it produced
\* changes nothing.
C6_AdjustIdempotent ==
    (program = "app" /\ pc = "ma") => adjust_for_splits(Price) = Price

\* C6's case: the first pass did rescale a price.
C6_Witness ==
    /\ program = "app"
    /\ pc = "ma"
    /\ \E i \in 1..Len(Price) : Price[i] # Int2Rat(data[i])
    /\ adjust_for_splits(Price) = Price

\* Rows t whose Signal and the next row's are the same and not 0.
Repeats ==
    {t \in 1..(Len(Signal) - 1) : Signal[t] # 0 /\ Signal[t] = Signal[t + 1]}

\* C7 (as claimed): no two consecutive rows carry the same non-zero
\* Signal, the forced first row included.
C7_NoRepeatedSignal == Repeats = {}

\* C7 (amended): two consecutive rows carry the same non-zero Signal only
\* when the first of them is the forced first row.
C7_NoRepeatedCrossing == \A t \in Repeats : index[t] = FirstRow

\* C7's case: a crossing after the first row, directly followed by
\* another one.
C7_Witness ==
    \E t \in 2..(Len(Signal) - 1) : Signal[t] # 0 /\ Signal[t + 1] # 0

\* C8: a row whose average, or whose predecessor's average, is undefined
\* has Signal 0, keeps the Position of the row before and records no
\* trade; app.py's frame holds no such row after dropna.
C8_WarmupNeverTriggers ==
    /\ (program = "app" /\ pc \notin {"load", "ma"}) =>
          \A t \in 1..Len(MA) : ~IsNaN(MA[t])
    /\ Position # <<>> =>
          \A t \in 2..Len(MA) :
              (IsNaN(MA[t]) \/ IsNaN(MA[t - 1])) =>
                  /\ Signal[t] = 0
                  /\ Position[t] = Position[t - 1]
                  /\ ~InSeq(index[t], buy_points)
                  /\ ~InSeq(index[t], sell_points)

\* C8's case: the variant has finished, and the first row with an average
\* has its price above it while the row before has none.
C8_Witness ==
    /\ program = "variant"
    /\ pc = "done"
    /\ ma_type = "SMA"
    /\ Len(MA) > window
    /\ IsNaN(MA[window - 1])
    /\ Gt(Price[window], MA[window])
    /\ Signal[window] = 0

NonDecreasing(curve) == \A t \in 2..Len(curve) : Ge(curve[t], curve[t - 1])

CurveOK(curve, mdd) ==
    /\ \A t \in 1..Len(curve) :
          /\ Gt(curve[t], Zero)
          /\ Ge(cummax(curve)[t], curve[t])
    /\ Ge(mdd, Zero)
    /\ Le(mdd, One)
    /\ NonDecreasing(curve) => mdd = Zero

\* C9: both displayed curves are strictly positive and never above
\* their running maximum; each reported maximum drawdown lies in [0, 1]
\* and is 0 for a non-decreasing curve.
C9_DrawdownInUnitInterval ==
    Reported =>
        /\ CurveOK(Equity_LRS, report.mdd_lrs)
        /\ CurveOK(Equity_BuyHold, report.mdd_bh)

\* C9's case: both curves fell from a peak, by different amounts.
C9_Witness ==
    /\ Reported
    /\ Gt(report.mdd_lrs, Zero)
    /\ Gt(report.mdd_bh, report.mdd_lrs)

ConstantPrices == \A i, j \in 1..Len(data) : data[i] = data[j]

\* C10: a constant price series with at least 2 displayed rows gives no
\* crossing after the forced first row, no trades, total return 0 and
\* maximum drawdown 0 for both curves, and NaN for Sharpe and Sortino.
C10_ConstantSeries ==
    (Reported /\ ConstantPrices /\ Len(index) >= 2) =>
        /\ \A t \in 1..Len(Signal) : Signal[t] # 0 => index[t] = FirstRow
        /\ report.buy_count = 0
        /\ report.sell_count = 0
        /\ report.final_return_lrs = Zero
        /\ report.final_return_bh = Zero
        /\ report.mdd_lrs = Zero
        /\ report.mdd_bh = Zero
        /\ IsNaN(report.sharpe_lrs)
        /\ IsNaN(report.sortino_lrs)
        /\ IsNaN(report.sharpe_bh)
        /\ IsNaN(report.sortino_bh)

\* C10's case: a report on a constant series whose displayed rows all
\* have the price on the simple average.
C10_Witness ==
    /\ Reported
    /\ ConstantPrices
    /\ ma_type = "SMA"
    /\ Len(index) >= 3
    /\ \A t \in 1..Len(index) : Price[t] = MA[t]
    /\ IsNaN(report.sharpe_lrs)

StrictlyIncreasing == \A i \in 2..Len(data) : data[i - 1] < data[i]

====
